---- MODULE Spec2Model ----
(***************************************************************************)
(* Model of the task scheduler of BitfinexFundingData                      *)
(* (scheduler/scheduler.go) and of the tasks it runs (task/task.go).       *)
(*                                                                         *)
(* A scheduler owns a buffered channel taskQueue and a pool of worker      *)
(* goroutines.  Callers hand tasks over with Schedule / SubmitTask, with   *)
(* ScheduleWithDelay (a timer goroutine), with ScheduleRecurring (a ticker  *)
(* goroutine), or run a task's Execute themselves (main.go:156).  A worker  *)
(* receives a task and calls its Execute with context.Background().  Stop  *)
(* closes quit and waits for the workers.  NewPeriodicTask puts a periodic  *)
(* task into the registry periodicTask; Cancel is an empty stub.           *)
(*                                                                         *)
(* The WebSocket client (api/request.go) is modelled beside it: main       *)
(* connects, subscribes, starts the message-handling goroutine and closes  *)
(* the client; the goroutine reads messages and reconnects on an error.    *)
(***************************************************************************)
EXTENDS Integers, Sequences, FiniteSets, TLC

\* ---- bounds of the model ------------------------------------------------
MaxWorkers == 2
MaxQueueSize == 2
NumCallers == 3
MaxRetriesBound == 3
\* Ticks one ticker of ScheduleRecurring delivers.
MaxTicks == 3
\* The clock runs from 0 to MaxTime; every periodic task has the interval
\* Interval.
MaxTime == 2
Interval == 1
\* Connections the dialer can establish in one run.
MaxConns == 3

\* ---- program constants --------------------------------------------------
\* RetryPolicy.BackoffBase of every task constructor, in milliseconds.
BackoffBase == 500
\* The constant maxRetries of package api: dial attempts of one Connect.
apiMaxRetries == 5

WorkerIds == 1..MaxWorkers
\* Caller c owns the context ctx_c and the task it constructed, task c.
Callers == 1..NumCallers
Tasks == Callers

\* A goroutine that can be inside Task.Execute: a worker, or a caller that
\* calls Execute itself.
W(w) == <<"worker", w>>
M(c) == <<"main", c>>
Executors == {W(w) : w \in WorkerIds} \cup {M(c) : c \in Callers}

VARIABLES
    workers,      \* Scheduler.workers
    queueSize,    \* Scheduler.queueSize, the capacity of taskQueue
    started,      \* Start has been called
    taskQueue,    \* the buffer of the channel Scheduler.taskQueue
    wk,           \* position of each worker goroutine
    ex,           \* the frame of Task.Execute running on each executor
    call,         \* each caller's one call into the scheduler
    cancelled,    \* cancelled[c]: the context of caller c is done
    dly,          \* the goroutine spawned by ScheduleWithDelay for caller c
    kind,         \* kind[t]: the dynamic type of task t
    maxRetries,   \* RetryPolicy.MaxRetries carried by the tasks
    failsFirst,   \* the work of a task fails on its first failsFirst attempts
    hist,         \* per task: what has happened to it so far (history)
    dequeues,     \* number of receives from taskQueue so far (history)
    quit,         \* the channel Scheduler.quit has been closed
    stop,         \* position of main's call of Stop
    quitAt,       \* when quit was closed: dequeues, Spawned, and the
                  \* workers that were in a backoff sleep (history)
    joined,       \* the workers spawned so far when Stop returned (history)
    alive,        \* the other goroutines alive when Stop returned (history)
    rec,          \* the goroutine spawned by ScheduleRecurring for caller c
    periodicTask, \* Scheduler.periodicTask: name -> registered task, 0 if none
    pname,        \* pname[t]: PeriodicTask.name of task t, NoName if none
    now,          \* the clock (time.Now), in intervals' units
    lastRun,      \* lastRun[t]: PeriodicTask.lastRun of task t
    smu,          \* Scheduler.mu is locked
    pmu,          \* pmu[t]: PeriodicTask.mu of task t is locked
    conn,         \* WebSocketClient.conn: a connection, 0 if nil
    mu,           \* WebSocketClient.mu: the goroutine holding it, if any
    subscribed,   \* WebSocketClient.subscribed
    stopChan,     \* the channel WebSocketClient.stopChan has been closed
    reconnect,    \* WebSocketClient.reconnect
    link,         \* link[k]: the state of connection k
    sent,         \* sent[k]: the symbols subscribed to on connection k
    wpc,          \* position of main and of the message-handling goroutine
    dials,        \* dials[p]: the loop variable i of Connect called by p
    rconn,        \* the value of wsc.conn the goroutine has read
    want,         \* the symbols main has subscribed to (history)
    redone        \* the connection of the last re-subscription (history)

\* The variables of shutdown, and of the periodic registry, the clock and
\* the two mutexes.
lifeVars == <<quit, stop, quitAt, joined, alive>>
regVars == <<periodicTask, pname, now, smu, pmu>>

\* The variables of the WebSocket client.
wsVars == <<conn, mu, subscribed, stopChan, reconnect, link, sent, wpc,
            dials, rconn, want, redone>>

vars == <<workers, queueSize, started, taskQueue, wk, ex, call, cancelled,
          dly, kind, maxRetries, failsFirst, hist, dequeues, lifeVars, rec,
          regVars, lastRun, wsVars>>

\* The names a periodic task can be registered under.
Names == {"a", "b"}
NoName == ""

Min(a, b) == IF a < b THEN a ELSE b

\* ---- construction ---------------------------------------------------------

\* No Execute is running on the executor.  A frame holds the position in
\* Execute (pc), the task, the context passed in, the loop variable attempt,
\* the variable err, and whether the timer of the current backoff has fired.
NoFrame ==
    [pc |-> "none", task |-> 0, ctx |-> "background", attempt |-> 0,
     err |-> "nil", fired |-> FALSE]

\* The history of a task nothing has happened to: times put on the queue
\* (enq), calls of its Execute (calls), attempts at its work (attempts), the
\* value its Execute returned (outcome), the results sent on its ResultChan
\* (results), the backoff durations waited (waits), cas, cib, cbf, which
\* CancelCtx describes, can, which Cancel describes, rep and created, which
\* NewPeriodicTask describes, and began, which PeriodicExecute describes.
NoHist ==
    [enq |-> 0, calls |-> 0, attempts |-> 0, outcome |-> "none",
     results |-> <<>>, waits |-> <<>>, cas |-> FALSE, cib |-> -1,
     cbf |-> FALSE, can |-> -1, rep |-> -1, created |-> -1, began |-> -1]

\* NewScheduler(workers, queueSize): any two counts are accepted; the channel
\* is made with capacity queueSize (0 makes it unbuffered) and no goroutine
\* runs yet.
NewScheduler(w, q) ==
    /\ workers = w
    /\ queueSize = q
    /\ taskQueue = <<>>
    /\ started = FALSE
    /\ wk = [i \in WorkerIds |-> "off"]
    /\ quit = FALSE
    /\ periodicTask = [n \in Names |-> 0]
    /\ smu = FALSE

\* The connections, the symbols of funding trades, and the two goroutines
\* that use the WebSocket client.
Conns == 1..MaxConns
Symbols == {"fUSD", "fBTC"}
WsProcs == {"main", "handler"}

\* NewWebSocketClient(): no connection, not subscribed, stopChan open,
\* reconnect true; no message-handling goroutine runs yet.
NewWebSocketClient ==
    /\ conn = 0
    /\ mu = "none"
    /\ subscribed = FALSE
    /\ stopChan = FALSE
    /\ reconnect = TRUE
    /\ link = [k \in Conns |-> "unused"]
    /\ sent = [k \in Conns |-> {}]
    /\ wpc = [p \in WsProcs |-> IF p = "main" THEN "start" ELSE "none"]
    /\ dials = [p \in WsProcs |-> 0]
    /\ rconn = 0
    /\ want = {}
    /\ redone = 0

\* The callers, their contexts and their tasks before any call is made.
InitCallers ==
    /\ ex = [e \in Executors |-> NoFrame]
    /\ call = [c \in Callers |->
                 [pc |-> "idle", op |-> "none", branch |-> "none", ret |-> "none"]]
    /\ cancelled = [c \in Callers |-> FALSE]
    /\ dly = [c \in Callers |-> [pc |-> "none", fired |-> FALSE, branch |-> "none"]]
    /\ hist = [t \in Tasks |-> NoHist]
    /\ dequeues = 0
    /\ stop = "none"
    /\ quitAt = [dequeues |-> -1, spawned |-> {}, backoff |-> {}]
    /\ joined = {}
    /\ alive = {}
    /\ rec = [c \in Callers |->
                [pc |-> "none", tick |-> FALSE, ticks |-> 0, drops |-> 0,
                 subs |-> 0, rej |-> 0]]
    /\ pname = [t \in Tasks |-> NoName]
    /\ pmu = [t \in Tasks |-> FALSE]
    /\ now = 0
    /\ lastRun = [t \in Tasks |-> 0]

\* ---- Scheduler.Start ------------------------------------------------------

\* The worker goroutines spawned so far.
Spawned == {i \in WorkerIds : wk[i] # "off"}

\* Start spawns s.workers more worker goroutines (wg.Add(1); go s.worker())
\* each time it is called; nothing in it looks at earlier calls or at quit.
\* The model has MaxWorkers goroutine slots, which caps the calls.
Start ==
    /\ Cardinality(Spawned) + workers <= MaxWorkers
    /\ started' = TRUE
    /\ wk' = [i \in WorkerIds |->
                IF /\ i > Cardinality(Spawned)
                   /\ i <= Cardinality(Spawned) + workers
                THEN "select" ELSE wk[i]]
    /\ UNCHANGED <<wsVars, lifeVars, rec, regVars, lastRun,
                   workers, queueSize, taskQueue, ex, call, cancelled, dly,
                   kind, maxRetries, failsFirst, hist, dequeues>>

\* main calls Start once, before anything else is done with the scheduler.
StartOnce == ~started /\ Start

\* ---- Task.Execute, entered ------------------------------------------------

\* The frame of task.Execute(ctx) at its first statement.
StartFrame(t, ctx) ==
    [pc |-> IF kind[t] = "stats" THEN "loop" ELSE "run",
     task |-> t, ctx |-> ctx, attempt |-> 0, err |-> "nil", fired |-> FALSE]

\* The context a worker passes to Execute.
WorkerCtx == "background"

\* case task := <-s.taskQueue: worker w has received t and calls
\* task.Execute(context.Background()); h is the history to extend.
Receive(w, t, h) ==
    /\ wk' = [wk EXCEPT ![w] = "busy"]
    /\ ex' = [ex EXCEPT ![W(w)] = StartFrame(t, WorkerCtx)]
    /\ dequeues' = dequeues + 1
    /\ hist' = [h EXCEPT ![t] = [@ EXCEPT !.calls = @ + 1, !.cas = cancelled[t]]]

\* ---- Scheduler.SubmitTask -------------------------------------------------

\* A SubmitTask that sends without a default case (s.taskQueue <- task).
SubmitTaskBlocking(t, b) ==
    /\ b = "sent"
    /\ Len(taskQueue) < queueSize
    /\ taskQueue' = Append(taskQueue, t)
    /\ hist' = [hist EXCEPT ![t].enq = @ + 1]
    /\ UNCHANGED <<wsVars, wk, ex, dequeues>>

\* A SubmitTask whose channel holds one task more than queueSize.
SubmitTaskOffByOne(t, b) ==
    \/ /\ b = "sent"
       /\ Len(taskQueue) <= queueSize
       /\ taskQueue' = Append(taskQueue, t)
       /\ hist' = [hist EXCEPT ![t].enq = @ + 1]
       /\ UNCHANGED <<wsVars, wk, ex, dequeues>>
    \/ /\ b = "default"
       /\ ~(Len(taskQueue) <= queueSize)
       /\ UNCHANGED <<wsVars, taskQueue, wk, ex, dequeues, hist>>

\* select { case s.taskQueue <- task: ; default: } for task t; b names the
\* case taken.  The send is ready when the buffer has room, or, on an
\* unbuffered channel, when a worker is parked in its receive (the task is
\* then handed to that worker directly; a worker at its select may or may
\* not be parked yet, and none is parked once quit is closed).  default is
\* taken only when the send is not ready; it is empty, and SubmitTask
\* returns nothing in either case.
SubmitTask(t, b) ==
    \/ /\ b = "sent"
       /\ Len(taskQueue) < queueSize
       /\ taskQueue' = Append(taskQueue, t)
       /\ hist' = [hist EXCEPT ![t].enq = @ + 1]
       /\ UNCHANGED <<wsVars, wk, ex, dequeues>>
    \/ /\ b = "sent"
       /\ queueSize = 0
       /\ ~quit
       /\ \E w \in WorkerIds :
            /\ wk[w] = "select"
            /\ Receive(w, t, [hist EXCEPT ![t].enq = @ + 1])
       /\ UNCHANGED taskQueue
    \/ /\ b = "default"
       /\ ~(Len(taskQueue) < queueSize)
       /\ UNCHANGED <<wsVars, taskQueue, wk, ex, dequeues, hist>>

\* ---- Scheduler.Schedule ---------------------------------------------------

\* Caller c enters Schedule(ctx_c, task_c).
CallSchedule(c) ==
    /\ call[c].pc = "idle"
    /\ call' = [call EXCEPT ![c] = [@ EXCEPT !.pc = "submit", !.op = "Schedule"]]
    /\ UNCHANGED <<wsVars, lifeVars, rec, regVars, lastRun,
                   workers, queueSize, started, taskQueue, wk, ex, cancelled,
                   dly, kind, maxRetries, failsFirst, hist, dequeues>>

\* Schedule: s.SubmitTask(task); return nil.  ctx is not used.
Schedule(c) ==
    /\ call[c].pc = "submit"
    /\ \E b \in {"sent", "default"} :
         /\ SubmitTask(c, b)
         /\ call' = [call EXCEPT ![c] =
                       [@ EXCEPT !.pc = "done", !.branch = b, !.ret = "nil"]]
    /\ UNCHANGED <<wsVars, lifeVars, rec, regVars, lastRun,
                   workers, queueSize, started, cancelled, dly, kind,
                   maxRetries, failsFirst>>

\* ---- Scheduler.worker -----------------------------------------------------

\* BaseTask.Priority of task t ("higher numbers mean higher priority"): the
\* tasks are numbered by rising priority.  Nothing in the scheduler reads it.
Priority(t) == t

\* A worker that receives the queued task of the highest priority.
WorkerReceiveByPriority(w) ==
    /\ wk[w] = "select"
    /\ taskQueue # <<>>
    /\ LET q == taskQueue
           i == CHOOSE k \in DOMAIN q :
                    \A j \in DOMAIN q : Priority(q[j]) <= Priority(q[k])
       IN  /\ taskQueue' = SubSeq(q, 1, i - 1) \o SubSeq(q, i + 1, Len(q))
           /\ Receive(w, q[i], hist)
    /\ UNCHANGED <<wsVars, lifeVars, rec, regVars, lastRun,
                   workers, queueSize, started, call, cancelled, dly, kind,
                   maxRetries, failsFirst>>

\* Workers that receive no more once the first task has been received.
WorkerReceiveOnce(w) ==
    /\ wk[w] = "select"
    /\ dequeues = 0
    /\ taskQueue # <<>>
    /\ taskQueue' = Tail(taskQueue)
    /\ Receive(w, Head(taskQueue), hist)
    /\ UNCHANGED <<wsVars, lifeVars, rec, regVars, lastRun,
                   workers, queueSize, started, call, cancelled, dly, kind,
                   maxRetries, failsFirst>>

\* A receive that leaves the task in the buffer.
WorkerReceiveKeepsEntry(w) ==
    /\ wk[w] = "select"
    /\ taskQueue # <<>>
    /\ taskQueue' = taskQueue
    /\ Receive(w, Head(taskQueue), hist)
    /\ UNCHANGED <<wsVars, lifeVars, rec, regVars, lastRun,
                   workers, queueSize, started, call, cancelled, dly, kind,
                   maxRetries, failsFirst>>

\* A worker that receives only while no other worker is inside Execute.
WorkerReceiveExclusive(w) ==
    /\ wk[w] = "select"
    /\ \A v \in WorkerIds : wk[v] # "busy"
    /\ taskQueue # <<>>
    /\ taskQueue' = Tail(taskQueue)
    /\ Receive(w, Head(taskQueue), hist)
    /\ UNCHANGED <<wsVars, lifeVars, rec, regVars, lastRun,
                   workers, queueSize, started, call, cancelled, dly, kind,
                   maxRetries, failsFirst>>

\* One iteration of the worker's select on the receive case: the channel
\* hands out the task that has been in its buffer longest.
WorkerReceive(w) ==
    /\ wk[w] = "select"
    /\ taskQueue # <<>>
    /\ taskQueue' = Tail(taskQueue)
    /\ Receive(w, Head(taskQueue), hist)
    /\ UNCHANGED <<wsVars, lifeVars, rec, regVars, lastRun,
                   workers, queueSize, started, call, cancelled, dly, kind,
                   maxRetries, failsFirst>>

\* Execute has returned err on executor e, with h the history so far.
\* A worker drops err (the retry branch of worker is empty) and loops back
\* to its select; a caller that called Execute itself gets err returned.
Return(e, err, h) ==
    /\ ex' = [ex EXCEPT ![e] = NoFrame]
    /\ hist' = [h EXCEPT ![ex[e].task].outcome = err]
    /\ IF e[1] = "worker"
       THEN /\ wk' = [wk EXCEPT ![e[2]] = "select"]
            /\ call' = call
       ELSE /\ call' = [call EXCEPT ![e[2]] = [@ EXCEPT !.pc = "done", !.ret = err]]
            /\ wk' = wk

\* case <-s.quit: return, with the deferred s.wg.Done().  The case is ready
\* once quit is closed; when a task is waiting in taskQueue as well, the
\* select takes either case (WorkerReceive stays enabled).
WorkerQuit(w) ==
    /\ wk[w] = "select"
    /\ quit
    /\ wk' = [wk EXCEPT ![w] = "exited"]
    /\ UNCHANGED <<wsVars, lifeVars, rec, regVars, lastRun,
                   workers, queueSize, started, taskQueue, ex, call,
                   cancelled, dly, kind, maxRetries, failsFirst, hist,
                   dequeues>>

\* ---- Scheduler.Stop --------------------------------------------------------

\* A Stop that waits for the workers without closing quit.
StopWithoutClose ==
    /\ stop = "none"
    /\ stop' = "wait"
    /\ quitAt' = [dequeues |-> dequeues, spawned |-> Spawned,
                  backoff |-> {w \in WorkerIds : ex[W(w)].pc = "backoff"}]
    /\ UNCHANGED <<wsVars, quit, rec, joined, alive, regVars, lastRun,
                   workers, queueSize, started, taskQueue, wk, ex, call,
                   cancelled, dly, kind, maxRetries, failsFirst, hist,
                   dequeues>>

\* Stop, first statement: close(s.quit).  Every goroutine parked in a select
\* with a case on quit is woken on that case: the parked goroutines of
\* ScheduleRecurring (a worker at "select" takes the case in WorkerQuit).
StopClose ==
    /\ stop = "none"
    /\ quit' = TRUE
    /\ stop' = "wait"
    /\ quitAt' = [dequeues |-> dequeues, spawned |-> Spawned,
                  backoff |-> {w \in WorkerIds : ex[W(w)].pc = "backoff"}]
    /\ rec' = [c \in Callers |->
                 [rec[c] EXCEPT !.pc = IF @ = "parked" THEN "exit" ELSE @]]
    /\ UNCHANGED <<wsVars, joined, alive, regVars, lastRun,
                   workers, queueSize, started, taskQueue, wk, ex, call,
                   cancelled, dly, kind, maxRetries, failsFirst, hist,
                   dequeues>>

\* Stop called again after Stop has returned, as main does (the explicit
\* call after the signal, then the deferred call): its first statement,
\* close(s.quit), closes a closed channel, which panics.
StopAgain ==
    /\ stop = "returned"
    /\ quit
    /\ stop' = "panic"
    /\ UNCHANGED <<wsVars, quit, quitAt, joined, alive, rec, regVars, lastRun,
                   workers, queueSize, started, taskQueue, wk, ex, call,
                   cancelled, dly, kind, maxRetries, failsFirst, hist,
                   dequeues>>

\* The goroutines of ScheduleWithDelay and ScheduleRecurring that have been
\* spawned and have not returned.
Alive ==
    {<<"delay", c>> : c \in {d \in Callers : dly[d].pc \notin {"none", "exit"}}}
    \cup
    {<<"recurring", c>> : c \in {d \in Callers : rec[d].pc \notin {"none", "exit"}}}

\* A Stop that returns right after close(s.quit), without s.wg.Wait().
StopReturnWithoutWait ==
    /\ stop = "wait"
    /\ stop' = "returned"
    /\ joined' = Spawned
    /\ alive' = Alive
    /\ UNCHANGED <<wsVars, quit, quitAt, rec, regVars, lastRun,
                   workers, queueSize, started, taskQueue, wk, ex, call,
                   cancelled, dly, kind, maxRetries, failsFirst, hist,
                   dequeues>>

\* Stop, second statement: s.wg.Wait() returns, and with it Stop.  The
\* counter of wg is the number of workers spawned (wg.Add(1) in Start) that
\* have not run their deferred wg.Done(); no other goroutine is counted.
StopReturn ==
    /\ stop = "wait"
    /\ \A w \in Spawned : wk[w] = "exited"
    /\ stop' = "returned"
    /\ joined' = Spawned
    /\ alive' = Alive
    /\ UNCHANGED <<wsVars, quit, quitAt, rec, regVars, lastRun,
                   workers, queueSize, started, taskQueue, wk, ex, call,
                   cancelled, dly, kind, maxRetries, failsFirst, hist,
                   dequeues>>

\* ---- the work of a task -----------------------------------------------------

\* The result of the n-th attempt (n = 1, 2, ...) at a task's work: the API
\* request of a stats task, the runFunc of a periodic task.
Work(n) == IF n > failsFirst THEN "nil" ELSE "apiErr"

\* ---- PeriodicTask.Execute ---------------------------------------------------

\* An Execute that goes on to runFunc without writing lastRun.
PeriodicExecuteKeepsLastRun(e) ==
    /\ ex[e].pc = "run"
    /\ ex' = [ex EXCEPT ![e].pc = "runFunc"]
    /\ hist' = [hist EXCEPT ![ex[e].task].began = now]
    /\ UNCHANGED <<wsVars, lifeVars, rec, regVars, lastRun,
                   workers, queueSize, started, taskQueue, wk, call,
                   cancelled, dly, kind, maxRetries, failsFirst, dequeues>>

\* An Execute that unlocks p.mu only when it returns (defer p.mu.Unlock()):
\* the mutex stays locked while runFunc runs.
PeriodicExecuteDefersUnlock(e) ==
    /\ ex[e].pc = "run"
    /\ ~pmu[ex[e].task]
    /\ pmu' = [pmu EXCEPT ![ex[e].task] = TRUE]
    /\ ex' = [ex EXCEPT ![e].pc = "runFunc"]
    /\ lastRun' = [lastRun EXCEPT ![ex[e].task] = now]
    /\ hist' = [hist EXCEPT ![ex[e].task].began = now]
    /\ UNCHANGED <<wsVars, lifeVars, rec, periodicTask, pname, now, smu,
                   workers, queueSize, started, taskQueue, wk, call,
                   cancelled, dly, kind, maxRetries, failsFirst, dequeues>>

\* Execute up to the call of runFunc: p.mu.Lock(); p.lastRun = time.Now();
\* p.mu.Unlock(), which waits while p.mu is locked.  History: began is the
\* time at which this happened.
PeriodicExecute(e) ==
    /\ ex[e].pc = "run"
    /\ ~pmu[ex[e].task]
    /\ ex' = [ex EXCEPT ![e].pc = "runFunc"]
    /\ lastRun' = [lastRun EXCEPT ![ex[e].task] = now]
    /\ hist' = [hist EXCEPT ![ex[e].task].began = now]
    /\ UNCHANGED <<wsVars, lifeVars, rec, regVars,
                   workers, queueSize, started, taskQueue, wk, call,
                   cancelled, dly, kind, maxRetries, failsFirst, dequeues>>

\* return p.runFunc(ctx): the run function, which may take any time,
\* completes, and Execute returns its result.
RunFunc(e) ==
    /\ ex[e].pc = "runFunc"
    /\ LET t == ex[e].task
           r == Work(ex[e].attempt + 1)
       IN  Return(e, r, [hist EXCEPT ![t].attempts = @ + 1])
    /\ UNCHANGED <<wsVars, lifeVars, rec, regVars, lastRun,
                   workers, queueSize, started, taskQueue, cancelled, dly,
                   kind, maxRetries, failsFirst, dequeues>>

\* ---- GetFundingStatsTask.Execute ---------------------------------------------

\* <-ctx.Done() is ready for the context held by frame f.  A worker's frame
\* holds context.Background(), which is never done.
CtxDone(f) == f.ctx = "caller" /\ cancelled[f.task]

\* t.ResultChan <- r, appended to history h.  The channels main passes have
\* capacity 1 and are read after Execute returns.
SendResult(h, t, r) == [h EXCEPT ![t].results = Append(@, r)]

\* A backoff that grows linearly instead of doubling.
BackoffLinear(a) == (a + 1) * BackoffBase

\* backoffDuration after failed attempt number a (counted from 0):
\* time.Duration(math.Pow(2, float64(attempt))) * t.RetryPolicy.BackoffBase
BackoffDuration(a) == (2 ^ a) * BackoffBase

\* Caller c calls task_c.Execute(ctx_c) itself, as main does for its initial
\* fetches.
CallExecute(c) ==
    /\ call[c].pc = "idle"
    /\ kind[c] = "stats"
    /\ call' = [call EXCEPT ![c] = [@ EXCEPT !.pc = "executing", !.op = "Execute"]]
    /\ ex' = [ex EXCEPT ![M(c)] = StartFrame(c, "caller")]
    /\ hist' = [hist EXCEPT ![c] = [@ EXCEPT !.calls = @ + 1, !.cas = cancelled[c]]]
    /\ UNCHANGED <<wsVars, lifeVars, rec, regVars, lastRun,
                   workers, queueSize, started, taskQueue, wk, cancelled, dly,
                   kind, maxRetries, failsFirst, dequeues>>

\* One iteration of the retry loop up to its next suspension point: the
\* select on ctx.Done() with a default, the API request, and what follows
\* its result.  After the last failed attempt the loop ends and the last
\* error is sent and returned.
StatsAttempt(e) ==
    /\ ex[e].pc = "loop"
    /\ LET f == ex[e]
           t == f.task
           r == Work(f.attempt + 1)
           h == [hist EXCEPT ![t].attempts = @ + 1]
       IN  IF CtxDone(f)
           THEN Return(e, "ctxErr", SendResult(hist, t, "ctxErr"))
           ELSE IF r = "nil"
           THEN Return(e, "nil", SendResult(h, t, "nil"))
           ELSE IF f.attempt < maxRetries
           THEN /\ ex' = [ex EXCEPT ![e] =
                            [@ EXCEPT !.pc = "backoff", !.err = r, !.fired = FALSE]]
                /\ hist' = [h EXCEPT ![t].waits = Append(@, BackoffDuration(f.attempt))]
                /\ UNCHANGED <<wsVars, wk, call>>
           ELSE Return(e, r, SendResult(h, t, r))
    /\ UNCHANGED <<wsVars, lifeVars, rec, regVars, lastRun,
                   workers, queueSize, started, taskQueue, cancelled, dly,
                   kind, maxRetries, failsFirst, dequeues>>

\* The timer of time.After(backoffDuration) fires: its channel holds a value.
BackoffTimerFires(e) ==
    /\ ex[e].pc = "backoff"
    /\ ~ex[e].fired
    /\ ex' = [ex EXCEPT ![e].fired = TRUE]
    /\ UNCHANGED <<wsVars, lifeVars, rec, regVars, lastRun,
                   workers, queueSize, started, taskQueue, wk, call, cancelled,
                   dly, kind, maxRetries, failsFirst, hist, dequeues>>

\* A backoff select whose ctx.Done() case returns ctx.Err() without sending
\* a result.
StatsBackoffSilent(e) ==
    /\ ex[e].pc = "backoff"
    /\ \/ /\ CtxDone(ex[e])
          /\ Return(e, "ctxErr", hist)
       \/ /\ ex[e].fired
          /\ ex' = [ex EXCEPT ![e] = [@ EXCEPT !.pc = "loop", !.attempt = @ + 1]]
          /\ UNCHANGED <<wsVars, wk, call, hist>>
    /\ UNCHANGED <<wsVars, lifeVars, rec, regVars, lastRun,
                   workers, queueSize, started, taskQueue, cancelled, dly,
                   kind, maxRetries, failsFirst, dequeues>>

\* A backoff select whose ctx.Done() case sends and returns err, the error of
\* the last attempt, instead of ctx.Err().
StatsBackoffReturnsLastErr(e) ==
    /\ ex[e].pc = "backoff"
    /\ \/ /\ CtxDone(ex[e])
          /\ Return(e, ex[e].err, SendResult(hist, ex[e].task, ex[e].err))
       \/ /\ ex[e].fired
          /\ ex' = [ex EXCEPT ![e] = [@ EXCEPT !.pc = "loop", !.attempt = @ + 1]]
          /\ UNCHANGED <<wsVars, wk, call, hist>>
    /\ UNCHANGED <<wsVars, lifeVars, rec, regVars, lastRun,
                   workers, queueSize, started, taskQueue, cancelled, dly,
                   kind, maxRetries, failsFirst, dequeues>>

\* The select of the backoff: on ctx.Done() the context's error is sent and
\* returned; on the timer the loop goes on with attempt + 1.  When both are
\* ready either case may be taken.
StatsBackoff(e) ==
    /\ ex[e].pc = "backoff"
    /\ \/ /\ CtxDone(ex[e])
          /\ Return(e, "ctxErr", SendResult(hist, ex[e].task, "ctxErr"))
       \/ /\ ex[e].fired
          /\ ex' = [ex EXCEPT ![e] = [@ EXCEPT !.pc = "loop", !.attempt = @ + 1]]
          /\ UNCHANGED <<wsVars, wk, call, hist>>
    /\ UNCHANGED <<wsVars, lifeVars, rec, regVars, lastRun,
                   workers, queueSize, started, taskQueue, cancelled, dly,
                   kind, maxRetries, failsFirst, dequeues>>

\* ---- Scheduler.ScheduleWithDelay ----------------------------------------------

\* ScheduleWithDelay(ctx_c, task_c, delay): the goroutine is spawned and nil
\* is returned at once.
ScheduleWithDelay(c) ==
    /\ call[c].pc = "idle"
    /\ call' = [call EXCEPT ![c] =
                  [@ EXCEPT !.pc = "done", !.op = "ScheduleWithDelay", !.ret = "nil"]]
    /\ dly' = [dly EXCEPT ![c].pc = "spawned"]
    /\ UNCHANGED <<wsVars, lifeVars, rec, regVars, lastRun,
                   workers, queueSize, started, taskQueue, wk, ex, cancelled,
                   kind, maxRetries, failsFirst, hist, dequeues>>

\* The goroutine runs timer := time.NewTimer(delay); next it evaluates its
\* select.
DelayNewTimer(c) ==
    /\ dly[c].pc = "spawned"
    /\ dly' = [dly EXCEPT ![c].pc = "armed"]
    /\ UNCHANGED <<wsVars, lifeVars, rec, regVars, lastRun,
                   workers, queueSize, started, taskQueue, wk, ex, call,
                   cancelled, kind, maxRetries, failsFirst, hist, dequeues>>

\* The delay has passed: timer.C holds a value.  A goroutine parked in the
\* select is woken on the timer case.
DelayTimerFires(c) ==
    /\ dly[c].pc \in {"armed", "parked"}
    /\ ~dly[c].fired
    /\ dly' = [dly EXCEPT ![c] =
                 [@ EXCEPT !.fired = TRUE,
                           !.pc = IF @ = "parked" THEN "submit" ELSE @]]
    /\ UNCHANGED <<wsVars, lifeVars, rec, regVars, lastRun,
                   workers, queueSize, started, taskQueue, wk, ex, call,
                   cancelled, kind, maxRetries, failsFirst, hist, dequeues>>

\* select { case <-timer.C: ...; case <-ctx.Done(): timer.Stop(); return }
\* evaluated: a ready case is taken, either one when both are ready; with no
\* case ready the goroutine parks until the first of the two wakes it.
DelaySelect(c) ==
    /\ dly[c].pc = "armed"
    /\ \/ /\ dly[c].fired
          /\ dly' = [dly EXCEPT ![c].pc = "submit"]
       \/ /\ cancelled[c]
          /\ dly' = [dly EXCEPT ![c].pc = "exit"]
       \/ /\ ~dly[c].fired /\ ~cancelled[c]
          /\ dly' = [dly EXCEPT ![c].pc = "parked"]
    /\ UNCHANGED <<wsVars, lifeVars, rec, regVars, lastRun,
                   workers, queueSize, started, taskQueue, wk, ex, call,
                   cancelled, kind, maxRetries, failsFirst, hist, dequeues>>

\* case <-timer.C: s.SubmitTask(task)
DelaySubmit(c) ==
    /\ dly[c].pc = "submit"
    /\ \E b \in {"sent", "default"} :
         /\ SubmitTask(c, b)
         /\ dly' = [dly EXCEPT ![c] = [@ EXCEPT !.pc = "exit", !.branch = b]]
    /\ UNCHANGED <<wsVars, lifeVars, rec, regVars, lastRun,
                   workers, queueSize, started, call, cancelled, kind,
                   maxRetries, failsFirst>>

\* ---- Scheduler.ScheduleRecurring --------------------------------------------

\* ScheduleRecurring(ctx_c, task_c, interval): go func() {...}(); return nil.
ScheduleRecurring(c) ==
    /\ call[c].pc = "idle"
    /\ call' = [call EXCEPT ![c] =
                  [@ EXCEPT !.pc = "done", !.op = "ScheduleRecurring",
                            !.ret = "nil"]]
    /\ rec' = [rec EXCEPT ![c].pc = "spawned"]
    /\ UNCHANGED <<wsVars, lifeVars, regVars, lastRun,
                   workers, queueSize, started, taskQueue, wk, ex, cancelled,
                   dly, kind, maxRetries, failsFirst, hist, dequeues>>

\* The goroutine runs ticker := time.NewTicker(interval); next it evaluates
\* its select.
RecNewTicker(c) ==
    /\ rec[c].pc = "spawned"
    /\ rec' = [rec EXCEPT ![c].pc = "armed"]
    /\ UNCHANGED <<wsVars, lifeVars, regVars, lastRun,
                   workers, queueSize, started, taskQueue, wk, ex, call,
                   cancelled, dly, kind, maxRetries, failsFirst, hist,
                   dequeues>>

\* The ticker of caller c ticks.  ticker.C holds one tick; a tick that finds
\* it full is dropped.  A goroutine parked in its select is woken on the
\* ticker.C case and takes the tick.  History: ticks counts the ticks, drops
\* those that were dropped.
TickerTicks(c) ==
    /\ rec[c].pc \in {"armed", "parked", "submit"}
    /\ rec[c].ticks < MaxTicks
    /\ rec' = [rec EXCEPT ![c] =
                 IF @.pc = "parked"
                 THEN [@ EXCEPT !.pc = "submit", !.ticks = @ + 1]
                 ELSE IF @.tick
                 THEN [@ EXCEPT !.ticks = @ + 1, !.drops = @ + 1]
                 ELSE [@ EXCEPT !.tick = TRUE, !.ticks = @ + 1]]
    /\ UNCHANGED <<wsVars, lifeVars, regVars, lastRun,
                   workers, queueSize, started, taskQueue, wk, ex, call,
                   cancelled, dly, kind, maxRetries, failsFirst, hist,
                   dequeues>>

\* A select of the ticker goroutine without the case on s.quit.
RecSelectIgnoresQuit(c) ==
    /\ rec[c].pc = "armed"
    /\ \/ /\ rec[c].tick
          /\ rec' = [rec EXCEPT ![c] = [@ EXCEPT !.pc = "submit", !.tick = FALSE]]
       \/ /\ cancelled[c]
          /\ rec' = [rec EXCEPT ![c].pc = "exit"]
       \/ /\ ~rec[c].tick /\ ~cancelled[c]
          /\ rec' = [rec EXCEPT ![c].pc = "parked"]
    /\ UNCHANGED <<wsVars, lifeVars, regVars, lastRun,
                   workers, queueSize, started, taskQueue, wk, ex, call,
                   cancelled, dly, kind, maxRetries, failsFirst, hist,
                   dequeues>>

\* select { case <-ticker.C: ...; case <-ctx.Done(): return; case <-s.quit:
\* return } evaluated: a ready case is taken, any one when several are ready;
\* with no case ready the goroutine parks until the first event wakes it.
RecSelect(c) ==
    /\ rec[c].pc = "armed"
    /\ \/ /\ rec[c].tick
          /\ rec' = [rec EXCEPT ![c] = [@ EXCEPT !.pc = "submit", !.tick = FALSE]]
       \/ /\ cancelled[c]
          /\ rec' = [rec EXCEPT ![c].pc = "exit"]
       \/ /\ quit
          /\ rec' = [rec EXCEPT ![c].pc = "exit"]
       \/ /\ ~rec[c].tick /\ ~cancelled[c] /\ ~quit
          /\ rec' = [rec EXCEPT ![c].pc = "parked"]
    /\ UNCHANGED <<wsVars, lifeVars, regVars, lastRun,
                   workers, queueSize, started, taskQueue, wk, ex, call,
                   cancelled, dly, kind, maxRetries, failsFirst, hist,
                   dequeues>>

\* A ticker goroutine that returns when the queue did not take the task.
RecSubmitGivesUp(c) ==
    /\ rec[c].pc = "submit"
    /\ \E b \in {"sent", "default"} :
         /\ SubmitTask(c, b)
         /\ rec' = [rec EXCEPT ![c] =
                      [@ EXCEPT !.pc = IF b = "sent" THEN "armed" ELSE "exit",
                                !.subs = @ + 1,
                                !.rej = IF b = "default" THEN @ + 1 ELSE @]]
    /\ UNCHANGED <<wsVars, lifeVars, regVars, lastRun,
                   workers, queueSize, started, call, cancelled, dly, kind,
                   maxRetries, failsFirst>>

\* case <-ticker.C: s.SubmitTask(task), and round the loop to the select,
\* whichever case SubmitTask took.  History: subs counts the calls of
\* SubmitTask, rej those that took default.
RecSubmit(c) ==
    /\ rec[c].pc = "submit"
    /\ \E b \in {"sent", "default"} :
         /\ SubmitTask(c, b)
         /\ rec' = [rec EXCEPT ![c] =
                      [@ EXCEPT !.pc = "armed",
                                !.subs = @ + 1,
                                !.rej = IF b = "default" THEN @ + 1 ELSE @]]
    /\ UNCHANGED <<wsVars, lifeVars, regVars, lastRun,
                   workers, queueSize, started, call, cancelled, dly, kind,
                   maxRetries, failsFirst>>

\* ---- periodic tasks ----------------------------------------------------------

\* Task t is the handle the registry holds under its name.
Registered(t) == pname[t] # NoName /\ periodicTask[pname[t]] = t

\* s.NewPeriodicTask(n, interval, runFunc, priority) by caller c, which makes
\* its task c: lastRun = time.Now(), and s.periodicTask[n] = task under
\* s.mu (locked and unlocked around the map update, so the call waits while
\* s.mu is locked), whatever the map held under n before.  History: when the handle
\* that is replaced has a running ScheduleRecurring ticker, its rep becomes
\* the number of ticks that ticker has delivered so far; created of the
\* new handle is the time of its creation.
NewPeriodicTask(c, n) ==
    /\ call[c].pc = "idle"
    /\ pname[c] = NoName
    /\ ~smu
    /\ pname' = [pname EXCEPT ![c] = n]
    /\ lastRun' = [lastRun EXCEPT ![c] = now]
    /\ periodicTask' = [periodicTask EXCEPT ![n] = c]
    /\ hist' = [t \in Tasks |->
                  IF t = c
                  THEN [hist[t] EXCEPT !.created = now]
                  ELSE IF /\ periodicTask[n] = t
                          /\ rec[t].pc \in {"armed", "parked", "submit"}
                  THEN [hist[t] EXCEPT !.rep = rec[t].ticks]
                  ELSE hist[t]]
    /\ UNCHANGED <<wsVars, lifeVars, rec, now, smu, pmu,
                   workers, queueSize, started, taskQueue, wk, ex, call,
                   cancelled, dly, kind, maxRetries, failsFirst, dequeues>>

\* A ShouldRun that asks for more than the interval.
ShouldRunStrict(t) == now - lastRun[t] > Interval

\* time.Since(p.lastRun) >= p.interval, computed under p.mu.
ShouldRun(t) == now - lastRun[t] >= Interval

\* Time passes.
Tick ==
    /\ now < MaxTime
    /\ now' = now + 1
    /\ UNCHANGED <<wsVars, lifeVars, rec, periodicTask, pname, smu, pmu,
                   lastRun, workers, queueSize, started, taskQueue, wk, ex,
                   call, cancelled, dly, kind, maxRetries, failsFirst, hist,
                   dequeues>>

\* Caller c hands the periodic task it has made to the scheduler, once:
\* with SubmitTask (main.go, immediately after NewPeriodicTask) or with
\* ScheduleRecurring (README).
SubmitPeriodic(c) == pname[c] # NoName /\ CallSchedule(c)
RecurPeriodic(c) == pname[c] # NoName /\ ScheduleRecurring(c)

\* ---- Scheduler.Cancel --------------------------------------------------------

\* A Cancel that takes the queued tasks of that name out of taskQueue.
CancelPurgesQueue(n) ==
    /\ periodicTask[n] # 0
    /\ taskQueue' = SelectSeq(taskQueue, LAMBDA t : pname[t] # n)
    /\ hist' = [t \in Tasks |->
                  IF pname[t] = n
                  THEN [hist[t] EXCEPT !.can = hist[t].calls]
                  ELSE hist[t]]
    /\ UNCHANGED <<wsVars, lifeVars, rec, regVars, lastRun,
                   workers, queueSize, started, wk, ex, call,
                   cancelled, dly, kind, maxRetries, failsFirst, dequeues>>

\* s.Cancel(n) for a registered name n: the body is a comment and return
\* nil; no field of the scheduler is read or written.  History: can of the
\* tasks named n becomes the number of times their Execute had been called
\* when Cancel returned.
Cancel(n) ==
    /\ periodicTask[n] # 0
    /\ hist' = [t \in Tasks |->
                  IF pname[t] = n
                  THEN [hist[t] EXCEPT !.can = hist[t].calls]
                  ELSE hist[t]]
    /\ UNCHANGED <<wsVars, lifeVars, rec, regVars, lastRun,
                   workers, queueSize, started, taskQueue, wk, ex, call,
                   cancelled, dly, kind, maxRetries, failsFirst, dequeues>>

\* ---- the callers' contexts --------------------------------------------------

\* cancel() of the context of caller c.  A ScheduleWithDelay or
\* ScheduleRecurring goroutine parked in its select is woken on the
\* ctx.Done() case.  History: whether an
\* Execute holding this context was in its backoff sleep (cib: the attempts
\* it had made), and whether a ScheduleWithDelay timer for it had not fired
\* yet (cbf).  cas records, when Execute is entered for a task, whether the
\* context its caller supplied was already cancelled.
CancelCtx(c) ==
    /\ ~cancelled[c]
    /\ cancelled' = [cancelled EXCEPT ![c] = TRUE]
    /\ dly' = [dly EXCEPT ![c].pc = IF @ = "parked" THEN "exit" ELSE @]
    /\ rec' = [rec EXCEPT ![c].pc = IF @ = "parked" THEN "exit" ELSE @]
    /\ hist' = [hist EXCEPT ![c] =
                  [@ EXCEPT
                     !.cib = IF ex[M(c)].pc = "backoff" THEN hist[c].attempts ELSE @,
                     !.cbf = dly[c].pc \in {"spawned", "armed", "parked"}
                             /\ ~dly[c].fired]]
    /\ UNCHANGED <<wsVars, lifeVars, regVars, lastRun,
                   workers, queueSize, started, taskQueue, wk, ex, call,
                   kind, maxRetries, failsFirst, dequeues>>

\* ---- specifications ----------------------------------------------------------

\* The submission path: any scheduler; every caller schedules its (periodic)
\* task once; the workers, once started, run the tasks.
Init ==
    /\ \E w \in 0..MaxWorkers, q \in 0..MaxQueueSize : NewScheduler(w, q)
    /\ InitCallers
    /\ NewWebSocketClient
    /\ kind = [t \in Tasks |-> "periodic"]
    /\ maxRetries = MaxRetriesBound
    /\ failsFirst \in 0..1

Next ==
    \/ StartOnce
    \/ \E c \in Callers : CallSchedule(c)
    \/ \E c \in Callers : Schedule(c)
    \/ \E w \in WorkerIds : WorkerReceive(w)
    \/ \E e \in Executors : PeriodicExecute(e)
    \/ \E e \in Executors : RunFunc(e)

Spec == Init /\ [][Next]_vars

\* The callers that take part in the retry path.
RetryCallers == {1, 2}

\* The retry path: a scheduler with one worker and a queue of one; the tasks
\* are of either kind, carry any retry policy up to the bound, and their work
\* fails any number of times first.  Two callers schedule their task or
\* execute it themselves, and cancel their context at any time.
InitRetry ==
    /\ NewScheduler(1, 1)
    /\ InitCallers
    /\ NewWebSocketClient
    /\ kind \in {k \in [Tasks -> {"periodic", "stats"}] :
                   \A t \in Tasks \ RetryCallers : k[t] = "periodic"}
    /\ maxRetries \in 0..MaxRetriesBound
    /\ failsFirst \in 0..(maxRetries + 1)

NextRetry ==
    \/ StartOnce
    \/ \E c \in RetryCallers : CallSchedule(c)
    \/ \E c \in RetryCallers : Schedule(c)
    \/ \E c \in RetryCallers : CallExecute(c)
    \/ \E c \in RetryCallers : CancelCtx(c)
    \/ \E w \in WorkerIds : WorkerReceive(w)
    \/ \E e \in Executors : PeriodicExecute(e)
    \/ \E e \in Executors : RunFunc(e)
    \/ \E e \in Executors : StatsAttempt(e)
    \/ \E e \in Executors : BackoffTimerFires(e)
    \/ \E e \in Executors : StatsBackoff(e)

SpecRetry == InitRetry /\ [][NextRetry]_vars

\* The callers that take part in the delayed path.
DelayCallers == {1, 2}

\* The delayed path: any scheduler; two callers schedule their (periodic)
\* task with a delay and cancel their context at any time.
InitDelay ==
    /\ \E w \in 0..MaxWorkers, q \in 0..MaxQueueSize : NewScheduler(w, q)
    /\ InitCallers
    /\ NewWebSocketClient
    /\ kind = [t \in Tasks |-> "periodic"]
    /\ maxRetries = MaxRetriesBound
    /\ failsFirst = 0

NextDelay ==
    \/ StartOnce
    \/ \E c \in DelayCallers : ScheduleWithDelay(c)
    \/ \E c \in DelayCallers : DelayNewTimer(c)
    \/ \E c \in DelayCallers : DelayTimerFires(c)
    \/ \E c \in DelayCallers : DelaySelect(c)
    \/ \E c \in DelayCallers : DelaySubmit(c)
    \/ \E c \in DelayCallers : CancelCtx(c)
    \/ \E w \in WorkerIds : WorkerReceive(w)
    \/ \E e \in Executors : PeriodicExecute(e)
    \/ \E e \in Executors : RunFunc(e)

SpecDelay == InitDelay /\ [][NextDelay]_vars

\* All the ways into the queue at once: any scheduler, started once; caller
\* 1 schedules its (periodic) task, caller 2 hands its task over with
\* ScheduleWithDelay, caller 3 with ScheduleRecurring; the workers run the
\* tasks.
InitQueue ==
    /\ \E w \in 0..MaxWorkers, q \in 0..MaxQueueSize : NewScheduler(w, q)
    /\ InitCallers
    /\ NewWebSocketClient
    /\ kind = [t \in Tasks |-> "periodic"]
    /\ maxRetries = MaxRetriesBound
    /\ failsFirst = 0

NextQueue ==
    \/ StartOnce
    \/ CallSchedule(1)
    \/ Schedule(1)
    \/ ScheduleWithDelay(2)
    \/ DelayNewTimer(2)
    \/ DelayTimerFires(2)
    \/ DelaySelect(2)
    \/ DelaySubmit(2)
    \/ ScheduleRecurring(3)
    \/ RecNewTicker(3)
    \/ TickerTicks(3)
    \/ RecSelect(3)
    \/ RecSubmit(3)
    \/ \E w \in WorkerIds : WorkerReceive(w)
    \/ \E e \in Executors : PeriodicExecute(e)
    \/ \E e \in Executors : RunFunc(e)

SpecQueue == InitQueue /\ [][NextQueue]_vars

\* A pool of at least two workers in which worker 1 may stay inside the
\* run function of a task for ever (an Execute that blocks, for instance
\* on its send to ResultChan), while every other step of a goroutine that
\* can run is taken eventually: no fairness is asked of RunFunc on worker 1.
InitBlock ==
    /\ \E w \in 2..MaxWorkers, q \in 1..MaxQueueSize : NewScheduler(w, q)
    /\ InitCallers
    /\ NewWebSocketClient
    /\ kind = [t \in Tasks |-> "periodic"]
    /\ maxRetries = MaxRetriesBound
    /\ failsFirst = 0

SpecBlock ==
    /\ InitBlock /\ [][Next]_vars
    /\ WF_vars(StartOnce)
    /\ \A w \in WorkerIds : WF_vars(WorkerReceive(w))
    /\ \A w \in WorkerIds : WF_vars(PeriodicExecute(W(w)))
    /\ \A w \in WorkerIds \ {1} : WF_vars(RunFunc(W(w)))

\* A running pool that is never stopped: at least one worker; every step a
\* worker can take is taken eventually, the task bodies included (weak
\* fairness of the workers).  Nothing is asked of the callers or of Start.
InitDrain ==
    /\ \E w \in 1..MaxWorkers, q \in 0..MaxQueueSize : NewScheduler(w, q)
    /\ InitCallers
    /\ NewWebSocketClient
    /\ kind = [t \in Tasks |-> "periodic"]
    /\ maxRetries = MaxRetriesBound
    /\ failsFirst = 0

SpecDrain ==
    /\ InitDrain /\ [][Next]_vars
    /\ \A w \in WorkerIds : WF_vars(WorkerReceive(w))
    /\ \A w \in WorkerIds : WF_vars(PeriodicExecute(W(w)))
    /\ \A w \in WorkerIds : WF_vars(RunFunc(W(w)))

\* The callers that take part in the shutdown path.
StopCallers == {1, 2}

\* The shutdown path: any scheduler; Start is called any number of times,
\* Stop once, at any moment; two callers schedule their (periodic) task.
InitStop ==
    /\ \E w \in 0..MaxWorkers, q \in 0..MaxQueueSize : NewScheduler(w, q)
    /\ InitCallers
    /\ NewWebSocketClient
    /\ kind = [t \in Tasks |-> "periodic"]
    /\ maxRetries = MaxRetriesBound
    /\ failsFirst = 0

NextStop ==
    \/ Start
    \/ StopClose
    \/ StopReturn
    \/ \E c \in StopCallers : CallSchedule(c)
    \/ \E c \in StopCallers : Schedule(c)
    \/ \E w \in WorkerIds : WorkerReceive(w)
    \/ \E w \in WorkerIds : WorkerQuit(w)
    \/ \E e \in Executors : PeriodicExecute(e)
    \/ \E e \in Executors : RunFunc(e)

SpecStop == InitStop /\ [][NextStop]_vars

\* Shutdown with timer and ticker goroutines: a scheduler with one worker
\* and a queue of one, started once; caller 1 hands its task over with
\* ScheduleWithDelay, caller 2 with ScheduleRecurring; Stop is called once,
\* at any moment.
InitStopTimers ==
    /\ NewScheduler(1, 1)
    /\ InitCallers
    /\ NewWebSocketClient
    /\ kind = [t \in Tasks |-> "periodic"]
    /\ maxRetries = MaxRetriesBound
    /\ failsFirst = 0

NextStopTimers ==
    \/ StartOnce
    \/ StopClose
    \/ StopReturn
    \/ ScheduleWithDelay(1)
    \/ DelayNewTimer(1)
    \/ DelayTimerFires(1)
    \/ DelaySelect(1)
    \/ DelaySubmit(1)
    \/ ScheduleRecurring(2)
    \/ RecNewTicker(2)
    \/ TickerTicks(2)
    \/ RecSelect(2)
    \/ RecSubmit(2)
    \/ \E w \in WorkerIds : WorkerReceive(w)
    \/ \E w \in WorkerIds : WorkerQuit(w)
    \/ \E e \in Executors : PeriodicExecute(e)
    \/ \E e \in Executors : RunFunc(e)

SpecStopTimers == InitStopTimers /\ [][NextStopTimers]_vars

\* The shutdown path of main: as SpecStop, and Stop is called a second
\* time after it has returned.
NextStopTwice ==
    \/ NextStop
    \/ StopAgain

SpecStopTwice == InitStop /\ [][NextStopTwice]_vars

\* Shutdown seen to its end: a started scheduler with a queue of
\* MaxQueueSize; callers 1 and 2 schedule their task, caller 3 hands its
\* task over with ScheduleWithDelay; Stop is called once, at any moment.
\* A task body that a worker runs returns, a worker whose select finds quit
\* closed again and again takes that case (the select chooses at random
\* among its ready cases), and wg.Wait() returns once the counter is zero.
\* Nothing is asked of the callers, the timer or its goroutine.
InitStopLive ==
    /\ \E w \in 1..MaxWorkers : NewScheduler(w, MaxQueueSize)
    /\ InitCallers
    /\ NewWebSocketClient
    /\ kind = [t \in Tasks |-> "periodic"]
    /\ maxRetries = MaxRetriesBound
    /\ failsFirst = 0

NextStopLive ==
    \/ StartOnce
    \/ StopClose
    \/ StopReturn
    \/ \E c \in StopCallers : CallSchedule(c)
    \/ \E c \in StopCallers : Schedule(c)
    \/ ScheduleWithDelay(3)
    \/ DelayNewTimer(3)
    \/ DelayTimerFires(3)
    \/ DelaySelect(3)
    \/ DelaySubmit(3)
    \/ \E w \in WorkerIds : WorkerReceive(w)
    \/ \E w \in WorkerIds : WorkerQuit(w)
    \/ \E e \in Executors : PeriodicExecute(e)
    \/ \E e \in Executors : RunFunc(e)

SpecStopLive ==
    /\ InitStopLive /\ [][NextStopLive]_vars
    /\ WF_vars(StopReturn)
    /\ \A w \in WorkerIds : SF_vars(WorkerQuit(w))
    /\ \A w \in WorkerIds : WF_vars(PeriodicExecute(W(w)))
    /\ \A w \in WorkerIds : WF_vars(RunFunc(W(w)))

\* Shutdown during retries: a scheduler with one worker and a queue of one,
\* started once; caller 1 schedules a stats task whose request fails any
\* number of times first; Stop is called once, at any moment.
InitStopRetry ==
    /\ NewScheduler(1, 1)
    /\ InitCallers
    /\ NewWebSocketClient
    /\ kind = [t \in Tasks |-> IF t = 1 THEN "stats" ELSE "periodic"]
    /\ maxRetries \in 0..MaxRetriesBound
    /\ failsFirst \in 0..(maxRetries + 1)

NextStopRetry ==
    \/ StartOnce
    \/ StopClose
    \/ StopReturn
    \/ CallSchedule(1)
    \/ Schedule(1)
    \/ \E w \in WorkerIds : WorkerReceive(w)
    \/ \E w \in WorkerIds : WorkerQuit(w)
    \/ \E e \in Executors : StatsAttempt(e)
    \/ \E e \in Executors : BackoffTimerFires(e)
    \/ \E e \in Executors : StatsBackoff(e)

SpecStopRetry == InitStopRetry /\ [][NextStopRetry]_vars

\* The recurring path: a scheduler with one worker and a queue of one,
\* started once; caller 1 hands its (periodic) task over with
\* ScheduleRecurring and may cancel its context; Stop is called once, at
\* any moment.
InitRecur ==
    /\ NewScheduler(1, 1)
    /\ InitCallers
    /\ NewWebSocketClient
    /\ kind = [t \in Tasks |-> "periodic"]
    /\ maxRetries = MaxRetriesBound
    /\ failsFirst = 0

NextRecur ==
    \/ StartOnce
    \/ StopClose
    \/ StopReturn
    \/ ScheduleRecurring(1)
    \/ RecNewTicker(1)
    \/ TickerTicks(1)
    \/ RecSelect(1)
    \/ RecSubmit(1)
    \/ CancelCtx(1)
    \/ \E w \in WorkerIds : WorkerReceive(w)
    \/ \E w \in WorkerIds : WorkerQuit(w)
    \/ \E e \in Executors : PeriodicExecute(e)
    \/ \E e \in Executors : RunFunc(e)

SpecRecur == InitRecur /\ [][NextRecur]_vars

\* The select of the ticker goroutine of caller c takes a case that
\* returns (ctx.Done() or quit), running the deferred ticker.Stop().
RecDone(c) == RecSelect(c) /\ rec'[c].pc = "exit"

\* The recurring path with the scheduling the Go runtime gives: a runnable
\* goroutine is run eventually (weak fairness of the ticker goroutine's
\* steps), and a select that is evaluated again and again with the same
\* case ready takes that case eventually, since it chooses among the ready
\* cases at random (strong fairness of the returning cases).
SpecRecurFair ==
    /\ SpecRecur
    /\ WF_vars(RecNewTicker(1))
    /\ WF_vars(RecSelect(1))
    /\ WF_vars(RecSubmit(1))
    /\ SF_vars(RecDone(1))

\* The callers that take part in the periodic path.
PeriodicCallers == {1, 2}

\* The periodic path: a scheduler with one worker and a queue of two,
\* started once; two callers make a periodic task under some name and then
\* hand it over once with SubmitTask, as main does; Cancel is called for
\* registered names; time passes.
InitPeriodic ==
    /\ NewScheduler(1, 2)
    /\ InitCallers
    /\ NewWebSocketClient
    /\ kind = [t \in Tasks |-> "periodic"]
    /\ maxRetries = MaxRetriesBound
    /\ failsFirst = 0

NextPeriodic ==
    \/ StartOnce
    \/ \E c \in PeriodicCallers, n \in Names : NewPeriodicTask(c, n)
    \/ \E c \in PeriodicCallers : SubmitPeriodic(c)
    \/ \E c \in PeriodicCallers : Schedule(c)
    \/ \E n \in Names : Cancel(n)
    \/ Tick
    \/ \E w \in WorkerIds : WorkerReceive(w)
    \/ \E e \in Executors : PeriodicExecute(e)
    \/ \E e \in Executors : RunFunc(e)

SpecPeriodic == InitPeriodic /\ [][NextPeriodic]_vars

\* The periodic path with a ticker: as above, but caller 1 hands its task
\* over with ScheduleRecurring, as the README does, and Cancel is not
\* called.
NextPeriodicTicker ==
    \/ StartOnce
    \/ \E c \in PeriodicCallers, n \in Names : NewPeriodicTask(c, n)
    \/ SubmitPeriodic(2)
    \/ Schedule(2)
    \/ RecurPeriodic(1)
    \/ RecNewTicker(1)
    \/ TickerTicks(1)
    \/ RecSelect(1)
    \/ RecSubmit(1)
    \/ Tick
    \/ \E w \in WorkerIds : WorkerReceive(w)
    \/ \E e \in Executors : PeriodicExecute(e)
    \/ \E e \in Executors : RunFunc(e)

SpecPeriodicTicker == InitPeriodic /\ [][NextPeriodicTicker]_vars

\* ---- claims about submission ------------------------------------------------

DoneSchedule(c) == call[c].pc = "done" /\ call[c].op = "Schedule"

\* C1: SubmitTask never blocks its caller.  In every queue state, with any
\* number of callers inside SubmitTask and with or without running workers,
\* the step of a caller that is inside SubmitTask is enabled, and a finished
\* call has taken exactly one of two cases: the task was added to the queue
\* (once), or it was rejected (and not added).
C1_SubmitNeverBlocks ==
    \A c \in Callers :
        /\ call[c].pc = "submit" => ENABLED Schedule(c)
        /\ DoneSchedule(c) =>
             \/ call[c].branch = "sent" /\ hist[c].enq = 1
             \/ call[c].branch = "default" /\ hist[c].enq = 0

\* C1 happens: two callers are inside SubmitTask at once while the queue is
\* full and the workers are running.
C1_Witness ==
    \E c, d \in Callers :
        /\ c # d
        /\ call[c].pc = "submit" /\ call[d].pc = "submit"
        /\ started /\ workers > 0
        /\ queueSize > 0 /\ Len(taskQueue) = queueSize

\* C2: a submission made while the queue is full reports a rejection to the
\* caller that is distinguishable from what an enqueued submission reports:
\* the value returned to a rejected caller differs from the value returned to
\* a caller whose task was enqueued.
C2_RejectionReported ==
    \A c, d \in Callers :
        (/\ DoneSchedule(c) /\ call[c].branch = "default"
         /\ DoneSchedule(d) /\ call[d].branch = "sent")
        => call[c].ret # call[d].ret

\* C3: with capacity queueSize and no dequeue so far, n finished submissions
\* gave exactly min(n, queueSize) enqueued and n - min(n, queueSize) rejected.
C3_EnqueuedMinOfCapacity ==
    dequeues = 0 =>
        LET n == Cardinality({c \in Callers : DoneSchedule(c)})
            enq == Cardinality({c \in Callers : DoneSchedule(c) /\ call[c].branch = "sent"})
            rej == Cardinality({c \in Callers : DoneSchedule(c) /\ call[c].branch = "default"})
        IN  /\ enq = Min(n, queueSize)
            /\ rej = n - Min(n, queueSize)
            /\ Len(taskQueue) = enq

\* C3 happens: capacity 1, one started worker that has not dequeued yet, two
\* submissions, one enqueued and one rejected.
C3_Witness ==
    /\ queueSize = 1 /\ workers = 1 /\ started /\ dequeues = 0
    /\ \E c, d \in Callers :
         /\ DoneSchedule(c) /\ call[c].branch = "sent"
         /\ DoneSchedule(d) /\ call[d].branch = "default"
         /\ \A o \in Callers \ {c, d} : call[o].pc = "idle"

\* ---- claims about retrying --------------------------------------------------

\* A worker has run task t to the end.
WorkerRan(t) ==
    call[t].op = "Schedule" /\ hist[t].calls > 0 /\ hist[t].outcome # "none"

\* C4: a task dequeued by a worker whose work always fails, with
\* maxRetries = k and a context that is never cancelled, is attempted exactly
\* k + 1 times and ends as a retry-exhausted failure.
C4_AlwaysFailingRetried ==
    \A t \in Tasks :
        (WorkerRan(t) /\ failsFirst > maxRetries /\ ~cancelled[t])
        => hist[t].attempts = maxRetries + 1 /\ hist[t].outcome = "apiErr"

\* C5: a task whose work fails on attempts 1..j-1 and succeeds on attempt j
\* (j <= maxRetries + 1) is attempted exactly j times, ends in success, and is
\* not attempted again.
C5_SucceedsOnAttemptJ ==
    \A t \in Tasks :
        (WorkerRan(t) /\ failsFirst + 1 <= maxRetries + 1 /\ ~cancelled[t])
        => hist[t].attempts = failsFirst + 1 /\ hist[t].outcome = "nil"

\* C6: the failure of a task that a worker ran reaches the caller: the error
\* of the last attempt is in a result sent on the task's result channel or is
\* the value returned to the caller.
C6_FailureSurfaced ==
    \A t \in Tasks :
        (WorkerRan(t) /\ hist[t].outcome # "nil")
        => \/ \E i \in 1..Len(hist[t].results) : hist[t].results[i] = hist[t].outcome
           \/ call[t].ret = hist[t].outcome

\* C7: if the context supplied for a task was already cancelled when its
\* execution started, no attempt is made and the outcome is cancellation.
C7_CancelledBeforeStart ==
    \A t \in Tasks :
        hist[t].cas =>
            /\ hist[t].attempts = 0
            /\ hist[t].outcome \in {"none", "ctxErr"}

C9_BackoffDoubles ==
    \A t \in Tasks :
        LET w == hist[t].waits
        IN  /\ Len(w) <= maxRetries
            /\ Len(w) > 0 => w[1] = BackoffBase
            /\ \A i \in 1..(Len(w) - 1) : w[i + 1] = 2 * w[i]
            /\ (kind[t] = "stats" /\ hist[t].outcome = "apiErr") =>
                 /\ hist[t].attempts = maxRetries + 1
                 /\ Len(w) = maxRetries

\* C9 happens: an execution with maxRetries = 3 failed four times and waited
\* 500, 1000 and 2000 ms in between.
C9_Witness ==
    \E t \in Tasks :
        /\ maxRetries = 3
        /\ hist[t].outcome = "apiErr"
        /\ hist[t].waits = <<500, 1000, 2000>>

\* ---- claims about delayed scheduling ------------------------------------------

\* C10: after ScheduleWithDelay(ctx, task, delay), if ctx is cancelled before
\* the timer fires, the task is never put into the queue and is executed zero
\* times, under every interleaving of the timer goroutine and the cancel.
C10_CancelledDelayNeverSubmits ==
    \A c \in Callers :
        hist[c].cbf => hist[c].enq = 0 /\ hist[c].calls = 0


\* ---- claims about shutdown ---------------------------------------------------

\* C11: once Stop has returned, every worker that had been spawned by then
\* has exited and runs no Execute, in that state and in every later one (an
\* exited worker never receives from taskQueue again).
C11_WorkersExitedAtStopReturn ==
    stop = "returned" =>
        \A w \in joined : wk[w] = "exited" /\ ex[W(w)].pc = "none"

\* Stop has returned after joining two workers, a task was received from
\* the queue after quit had been closed, and a task is still in the queue.
C11_Witness ==
    /\ stop = "returned"
    /\ Cardinality(joined) = 2
    /\ dequeues > quitAt.dequeues
    /\ taskQueue # <<>>

\* C12: at the moment Stop returns, no goroutine spawned by
\* ScheduleWithDelay or ScheduleRecurring is still alive.
C12_StopJoinsEveryGoroutine == stop = "returned" => alive = {}

\* C13: after quit has been closed no worker begins executing a task: no
\* task is received from taskQueue any more, the tasks in it are abandoned.
\* Stated for the workers that existed when quit was closed (no Start
\* since).
C13_NoTaskBeginsAfterQuit ==
    (quit /\ Spawned = quitAt.spawned) => dequeues = quitAt.dequeues

\* C14: a worker that is in the backoff sleep of a failing task when quit
\* is closed can leave the sleep at once: the shutdown aborts it, the timer
\* does not have to fire first.
C14_StopAbortsBackoff ==
    \A w \in quitAt.backoff :
        ex[W(w)].pc = "backoff" => ENABLED StatsBackoff(W(w))

\* C15: Start takes effect at most once (the worker goroutines never
\* outnumber s.workers), and once Stop has closed quit no Start spawns
\* workers again.
C15_LifecycleOneWay ==
    /\ Cardinality(Spawned) <= workers
    /\ quit => Spawned = quitAt.spawned

\* ---- claims about construction ---------------------------------------------

\* C16: no scheduler on which Start has been called was constructed with a
\* worker count or a queue capacity that is not positive.
C16_InvalidConfigRejected == started => (workers > 0 /\ queueSize > 0)

\* ---- claims about periodic tasks ---------------------------------------------

\* C17: once Cancel(name) has returned, the handle that was registered
\* under the name is no longer in the registry, and no Execute of a task
\* with that name begins.
C17_CancelUnregisters ==
    \A t \in Tasks :
        hist[t].can >= 0 => (~Registered(t) /\ hist[t].calls = hist[t].can)

\* C18: a step of Cancel leaves the queue, the workers and the running
\* Executes as they are.
C18_CancelNotRetroactive ==
    [][\A n \in Names : Cancel(n) => UNCHANGED <<wsVars, taskQueue, wk, ex>>]_vars

\* Cancel(name) has returned while one task of that name was in the queue
\* and another was being run by a worker; the latter has completed since.
C18_Witness ==
    \E t, u \in Tasks :
        /\ t # u /\ pname[t] = pname[u]
        /\ hist[t].can = 0 /\ \E i \in DOMAIN taskQueue : taskQueue[i] = t
        /\ hist[u].can = 1 /\ hist[u].outcome = "nil"

\* C19: the registry holds at most one handle per name, and once a handle
\* has been replaced by a registration under its name its timer is
\* cancelled: the ticker that submits it delivers no further tick.
C19_ReplacedHandleSilent ==
    /\ \A t, u \in Tasks :
         (Registered(t) /\ Registered(u) /\ pname[t] = pname[u]) => t = u
    /\ \A t \in Tasks : hist[t].rep >= 0 => rec[t].ticks = hist[t].rep

\* The scheduler has a step that puts task t on the queue.
CanSubmit(t) == ENABLED (NextPeriodic /\ hist'[t].enq > hist[t].enq)

\* Task t has been handed over with SubmitTask and has run to completion:
\* it is neither in the queue nor being executed.
RanOnce(t) ==
    /\ call[t].op = "Schedule"
    /\ hist[t].outcome # "none"
    /\ \A i \in DOMAIN taskQueue : taskQueue[i] # t
    /\ \A e \in Executors : ex[e].task # t

\* C20: while the scheduler runs, a registered periodic task that has not
\* been cancelled, has run, and whose interval has elapsed since its
\* lastRun is submitted again: with room in the queue, the scheduler has a
\* step that puts it there.
C20_DueTaskResubmitted ==
    \A t \in PeriodicCallers :
        ( /\ Registered(t) /\ hist[t].can < 0
          /\ started /\ ~quit
          /\ RanOnce(t)
          /\ ShouldRun(t)
          /\ Len(taskQueue) < queueSize )
        => CanSubmit(t)

\* C21: from the moment an Execute of a periodic task has begun, the task's
\* lastRun is the time at which its latest Execute began, while the run
\* function runs and after it has completed, and ShouldRun is decided by
\* the time elapsed since that moment.
C21_LastRunIsStartOfRun ==
    \A t \in Tasks :
        hist[t].began >= 0 =>
            /\ lastRun[t] = hist[t].began
            /\ ShouldRun(t) <=> (now - hist[t].began >= Interval)

\* A registered task's run function is running; the run began after the
\* task was created, and the interval has elapsed since it began.
C21_Witness ==
    \E e \in Executors :
        /\ ex[e].pc = "runFunc"
        /\ hist[ex[e].task].created >= 0
        /\ hist[ex[e].task].began > hist[ex[e].task].created
        /\ now - hist[ex[e].task].began >= Interval

\* C22: for a periodic task that has been created and not executed yet,
\* ShouldRun is true exactly when the interval has elapsed since its
\* creation; in particular it is false at the time of creation.
C22_ShouldRunFromCreation ==
    \A t \in Tasks :
        (pname[t] # NoName /\ hist[t].began < 0) =>
            /\ ShouldRun(t) <=> (now - hist[t].created >= Interval)
            /\ now = hist[t].created => ~ShouldRun(t)

\* A task created after time 0 has not been executed, and exactly the
\* interval has elapsed since its creation: ShouldRun is true.
C22_Witness ==
    \E t \in Tasks :
        /\ pname[t] # NoName /\ hist[t].began < 0
        /\ hist[t].created > 0
        /\ now - hist[t].created = Interval
        /\ ShouldRun(t)

\* ---- claims about ScheduleRecurring ------------------------------------------

\* Ticks of the ticker of caller c that have been submitted or are about to
\* be: SubmitTask has been called for them, the goroutine has received them
\* and is about to call it, or they wait in ticker.C.
Served(c) ==
    rec[c].subs + (IF rec[c].pc = "submit" THEN 1 ELSE 0)
                + (IF rec[c].tick THEN 1 ELSE 0)

\* C23 as stated: while the context is not cancelled and the scheduler is
\* not stopped, every tick of the ticker is served by exactly one call of
\* SubmitTask, and the goroutine has not ended.
C23_OneSubmitPerTick ==
    \A c \in Callers :
        (~cancelled[c] /\ ~quit) =>
            /\ rec[c].ticks = Served(c)
            /\ rec[c].pc # "exit"

\* C23, amended: every tick is served by exactly one call of SubmitTask
\* except the ticks the ticker dropped because ticker.C still held the one
\* before; and the goroutine ends only once the context is cancelled or
\* quit is closed, never because SubmitTask took default.
C23_OneSubmitPerDeliveredTick ==
    \A c \in Callers :
        /\ rec[c].ticks = Served(c) + rec[c].drops
        /\ rec[c].pc = "exit" => (cancelled[c] \/ quit)

\* A submission was rejected by the full queue, and after it the goroutine
\* has called SubmitTask again for a later tick; nothing was dropped,
\* cancelled or stopped.
C23_Witness ==
    \E c \in Callers :
        /\ ~cancelled[c] /\ ~quit
        /\ rec[c].rej >= 1
        /\ rec[c].subs = 3 /\ hist[c].enq = 2
        /\ rec[c].drops = 0

\* C24: once the context passed to ScheduleRecurring is cancelled or quit
\* is closed, the ticker goroutine eventually returns, and its ticker is
\* stopped: it ticks no more.
C24_RecurringTerminates ==
    (rec[1].pc # "none" /\ (cancelled[1] \/ quit))
        ~> (rec[1].pc = "exit" /\ ~ENABLED TickerTicks(1))

\* The ticker goroutine has submitted its task, the scheduler was stopped
\* with the context not cancelled, and the goroutine has returned while the
\* ticker had ticks left to deliver.
C24_Witness ==
    /\ quit /\ ~cancelled[1]
    /\ rec[1].subs >= 1 /\ rec[1].ticks < MaxTicks
    /\ rec[1].pc = "exit"

\* ---- claims about the queue ---------------------------------------------------

\* C25: the queue never holds more tasks than the capacity the scheduler
\* was constructed with.
C25_QueueWithinCapacity == Len(taskQueue) \in 0..queueSize

\* The queue of a scheduler with the largest capacity is full with tasks of
\* a caller, a timer and a ticker goroutine behind it: two are queued, a
\* worker runs the third, and the ticker's last submission was rejected.
C25_Witness ==
    /\ queueSize = MaxQueueSize
    /\ Len(taskQueue) = queueSize
    /\ hist[1].enq = 1 /\ hist[2].enq = 1 /\ hist[3].enq >= 1
    /\ rec[3].rej >= 1
    /\ \E w \in WorkerIds : wk[w] = "busy"

\* C26: every step leaves the queue as it is, puts one task at its end, or
\* takes the task at its front, which is the one a worker then executes:
\* tasks leave the queue in the order in which they entered it, whatever
\* their priorities.
C26_QueueIsFifo ==
    [][ \/ taskQueue' = taskQueue
        \/ \E t \in Tasks : taskQueue' = Append(taskQueue, t)
        \/ /\ taskQueue # <<>>
           /\ taskQueue' = Tail(taskQueue)
           /\ \E w \in WorkerIds :
                /\ ex[W(w)].pc = "none"
                /\ ex'[W(w)].task = Head(taskQueue) ]_vars

\* Two tasks were in a full queue of two (a third submission was
\* rejected); one has been received by a worker, and the one still queued
\* has the higher priority.
C26_Witness ==
    /\ queueSize = 2 /\ dequeues = 1
    /\ \E c \in Callers : DoneSchedule(c) /\ call[c].branch = "default"
    /\ \E w \in WorkerIds :
         /\ wk[w] = "busy"
         /\ Len(taskQueue) = 1
         /\ Priority(taskQueue[1]) > Priority(ex[W(w)].task)

\* C27: in a pool of at least two workers where worker 1 may block inside
\* Execute for ever, every task that has been enqueued is eventually
\* dequeued and executed: it completes, unless it is the very task worker 1
\* is blocked in.
C27_BlockedWorkerHoldsOneSlot ==
    \A t \in Tasks :
        (hist[t].enq >= 1) ~> (hist[t].outcome # "none" \/ ex[W(1)].task = t)

\* Worker 1 is inside the run function of one task; another task has
\* completed and a third is being executed by worker 2.
C27_Witness ==
    /\ ex[W(1)].pc = "runFunc"
    /\ ex[W(2)].pc = "runFunc"
    /\ \E t \in Tasks :
         /\ hist[t].outcome = "nil"
         /\ t \notin {ex[W(1)].task, ex[W(2)].task}

\* ---- the WebSocket client (api/request.go) -----------------------------------

\* The scheduler's variables, which the WebSocket client never touches.
schedVars == <<workers, queueSize, started, taskQueue, wk, ex, call, cancelled,
               dly, kind, maxRetries, failsFirst, hist, dequeues, lifeVars, rec,
               regVars, lastRun>>

\* The connection the next successful dial returns.
FreshConn == CHOOSE k \in Conns : link[k] = "unused" /\ \A j \in 1..(k - 1) : link[j] # "unused"

\* Where Connect returns to in its caller p.  main uses the client as the
\* README shows: after nil it goes on (and defers Close), after an error it
\* returns.  The goroutine is in reconnectWebSocket, which re-subscribes
\* after nil and sleeps after an error.
AfterConnect(p, ok) ==
    IF p = "main" THEN (IF ok THEN "ready" ELSE "exit")
    ELSE IF ok THEN "rc_sub" ELSE "rc_sleep"

\* Connect(), its entry: under mu, a client that holds a connection returns
\* nil at once; otherwise the dial loop begins, with mu held until Connect
\* returns.  main calls Connect first of all, on the new client; the
\* goroutine calls it from the loop of reconnectWebSocket.
Connect(p) ==
    /\ mu = "none"
    /\ \/ /\ p = "main" /\ wpc[p] = "start"
          /\ mu' = p
          /\ wpc' = [wpc EXCEPT ![p] = "dial"]
          /\ dials' = [dials EXCEPT ![p] = 0]
       \/ /\ p = "handler" /\ wpc[p] = "rc_connect"
          /\ IF conn # 0
             THEN /\ wpc' = [wpc EXCEPT ![p] = AfterConnect(p, TRUE)]
                  /\ UNCHANGED <<mu, dials>>
             ELSE /\ mu' = p
                  /\ wpc' = [wpc EXCEPT ![p] = "dial"]
                  /\ dials' = [dials EXCEPT ![p] = 0]
    /\ UNCHANGED <<schedVars, conn, subscribed, stopChan, reconnect, link, sent,
                   rconn, want, redone>>

\* dialer.Dial succeeds: wsc.conn is the new connection and Connect returns
\* nil, releasing mu.
DialOK(p) ==
    /\ wpc[p] = "dial"
    /\ \E k \in Conns : link[k] = "unused"
    /\ conn' = FreshConn
    /\ link' = [link EXCEPT ![FreshConn] = "open"]
    /\ mu' = "none"
    /\ wpc' = [wpc EXCEPT ![p] = AfterConnect(p, TRUE)]
    /\ UNCHANGED <<schedVars, subscribed, stopChan, reconnect, sent, dials,
                   rconn, want, redone>>

\* dialer.Dial fails: Connect sleeps and dials again, or, after maxRetries
\* attempts, returns the error, releasing mu.
DialFail(p) ==
    /\ wpc[p] = "dial"
    /\ IF dials[p] + 1 < apiMaxRetries
       THEN /\ dials' = [dials EXCEPT ![p] = @ + 1]
            /\ UNCHANGED <<mu, wpc>>
       ELSE /\ mu' = "none"
            /\ wpc' = [wpc EXCEPT ![p] = AfterConnect(p, FALSE)]
            /\ UNCHANGED dials
    /\ UNCHANGED <<schedVars, conn, subscribed, stopChan, reconnect, link, sent,
                   rconn, want, redone>>

\* The network loses connection k: reads on it fail from now on, and a
\* write may still be accepted or fail.
ConnectionLost(k) ==
    /\ link[k] = "open"
    /\ link' = [link EXCEPT ![k] = "lost"]
    /\ UNCHANGED <<schedVars, conn, mu, subscribed, stopChan, reconnect, sent,
                   wpc, dials, rconn, want, redone>>

\* conn.WriteMessage on connection k can succeed / can fail.  A write that
\* failed makes every later write on the connection fail.
CanWrite(k) == link[k] \in {"open", "lost"}
CanFailWrite(k) == link[k] \in {"lost", "failed", "closed"}

\* main, connected, calls SubscribeToFundingTrades(symbol), whole under mu:
\* without a connection it returns an error; it writes the subscribe
\* message and, if the write succeeded, sets subscribed.  (The calls that
\* return an error change nothing, except that a failed write is
\* remembered by the connection.)
SubscribeToFundingTrades(symbol) ==
    /\ wpc["main"] = "ready"
    /\ mu = "none"
    /\ conn # 0
    /\ \/ /\ CanWrite(conn)
          /\ sent' = [sent EXCEPT ![conn] = @ \cup {symbol}]
          /\ subscribed' = TRUE
          /\ want' = want \cup {symbol}
          /\ UNCHANGED link
       \/ /\ link[conn] = "lost"
          /\ link' = [link EXCEPT ![conn] = "failed"]
          /\ UNCHANGED <<sent, subscribed, want>>
    /\ UNCHANGED <<schedVars, conn, mu, stopChan, reconnect, wpc, dials, rconn,
                   redone>>

\* main, connected, calls HandleFundingTrades(handler): the
\* message-handling goroutine starts.
HandleFundingTrades ==
    /\ wpc["main"] = "ready"
    /\ wpc["handler"] = "none"
    /\ wpc' = [wpc EXCEPT !["handler"] = "select"]
    /\ UNCHANGED <<schedVars, conn, mu, subscribed, stopChan, reconnect, link,
                   sent, dials, rconn, want, redone>>

\* The select of the goroutine's loop: it returns if stopChan is closed,
\* and takes the default case, readAndHandleMessages, otherwise.
HandlerSelect ==
    /\ wpc["handler"] = "select"
    /\ wpc' = [wpc EXCEPT !["handler"] = IF stopChan THEN "done" ELSE "rlock"]
    /\ UNCHANGED <<schedVars, conn, mu, subscribed, stopChan, reconnect, link,
                   sent, dials, rconn, want, redone>>

\* readAndHandleMessages, its check under mu: wsc.conn is read, and
\* without a connection an error is returned.
ReadCheck ==
    /\ wpc["handler"] = "rlock"
    /\ mu = "none"
    /\ rconn' = conn
    /\ wpc' = [wpc EXCEPT !["handler"] = IF conn = 0 THEN "onerr" ELSE "read"]
    /\ UNCHANGED <<schedVars, conn, mu, subscribed, stopChan, reconnect, link,
                   sent, dials, want, redone>>

\* wsc.conn.ReadMessage(), the call: wsc.conn is read again, after mu was
\* released.  The read races with the writes of Close, so it yields the
\* current value or the value seen under mu; a nil connection makes the
\* call panic.
ReadCall ==
    /\ wpc["handler"] = "read"
    /\ \E k \in {conn, rconn} :
          /\ rconn' = k
          /\ wpc' = [wpc EXCEPT !["handler"] = IF k = 0 THEN "panic" ELSE "reading"]
    /\ UNCHANGED <<schedVars, conn, mu, subscribed, stopChan, reconnect, link,
                   sent, dials, want, redone>>

\* ReadMessage returns a message: it is handled (a subscription response
\* is logged, a trade is passed to the handler) and readAndHandleMessages
\* returns nil.
ReadMessage ==
    /\ wpc["handler"] = "reading"
    /\ link[rconn] = "open"
    /\ wpc' = [wpc EXCEPT !["handler"] = "select"]
    /\ UNCHANGED <<schedVars, conn, mu, subscribed, stopChan, reconnect, link,
                   sent, dials, rconn, want, redone>>

\* ReadMessage returns an error: the connection is lost or has been closed.
ReadError ==
    /\ wpc["handler"] = "reading"
    /\ link[rconn] # "open"
    /\ wpc' = [wpc EXCEPT !["handler"] = "onerr"]
    /\ UNCHANGED <<schedVars, conn, mu, subscribed, stopChan, reconnect, link,
                   sent, dials, rconn, want, redone>>

\* The goroutine after an error of readAndHandleMessages: it reconnects if
\* wsc.reconnect (read without mu), and returns otherwise.
OnError ==
    /\ wpc["handler"] = "onerr"
    /\ wpc' = [wpc EXCEPT !["handler"] = IF reconnect THEN "rc_drop" ELSE "done"]
    /\ UNCHANGED <<schedVars, conn, mu, subscribed, stopChan, reconnect, link,
                   sent, dials, rconn, want, redone>>

\* reconnectWebSocket, its first part: under mu, the connection, if any,
\* is closed and wsc.conn set to nil.
ReconnectDrop ==
    /\ wpc["handler"] = "rc_drop"
    /\ mu = "none"
    /\ conn' = 0
    /\ link' = IF conn # 0 THEN [link EXCEPT ![conn] = "closed"] ELSE link
    /\ wpc' = [wpc EXCEPT !["handler"] = "rc_connect"]
    /\ UNCHANGED <<schedVars, mu, subscribed, stopChan, reconnect, sent, dials,
                   rconn, want, redone>>

\* reconnectWebSocket after a failed Connect: time.Sleep(retryDelay), then
\* the loop calls Connect again.
ReconnectSleep ==
    /\ wpc["handler"] = "rc_sleep"
    /\ wpc' = [wpc EXCEPT !["handler"] = "rc_connect"]
    /\ UNCHANGED <<schedVars, conn, mu, subscribed, stopChan, reconnect, link,
                   sent, dials, rconn, want, redone>>

\* reconnectWebSocket after Connect returned nil: if wsc.subscribed, it
\* calls SubscribeToFundingTrades("fUSD"); an error (no connection, or a
\* failed write) sends the loop back to Connect; otherwise it returns to
\* the goroutine's loop.
Resubscribe ==
    /\ wpc["handler"] = "rc_sub"
    /\ IF ~subscribed
       THEN /\ wpc' = [wpc EXCEPT !["handler"] = "select"]
            /\ UNCHANGED <<sent, link, redone>>
       ELSE /\ mu = "none"
            /\ \/ /\ conn # 0 /\ CanWrite(conn)
                  /\ sent' = [sent EXCEPT ![conn] = @ \cup {"fUSD"}]
                  /\ redone' = conn
                  /\ wpc' = [wpc EXCEPT !["handler"] = "select"]
                  /\ UNCHANGED link
               \/ /\ conn # 0 /\ CanFailWrite(conn)
                  /\ link' = [link EXCEPT ![conn] = IF @ = "lost" THEN "failed" ELSE @]
                  /\ wpc' = [wpc EXCEPT !["handler"] = "rc_connect"]
                  /\ UNCHANGED <<sent, redone>>
               \/ /\ conn = 0
                  /\ wpc' = [wpc EXCEPT !["handler"] = "rc_connect"]
                  /\ UNCHANGED <<sent, link, redone>>
    /\ UNCHANGED <<schedVars, conn, mu, subscribed, stopChan, reconnect, dials,
                   rconn, want>>

\* main, returning, calls the deferred Close(), whole under mu: reconnect
\* is set to false, stopChan is closed, and the connection, if any, is
\* closed and wsc.conn set to nil.
Close ==
    /\ wpc["main"] = "ready"
    /\ mu = "none"
    /\ reconnect' = FALSE
    /\ stopChan' = TRUE
    /\ conn' = 0
    /\ link' = IF conn # 0 THEN [link EXCEPT ![conn] = "closed"] ELSE link
    /\ wpc' = [wpc EXCEPT !["main"] = "closed"]
    /\ UNCHANGED <<schedVars, mu, subscribed, sent, dials, rconn, want, redone>>

\* The WebSocket client used as the README shows: main connects, then
\* subscribes to symbols and starts the message-handling goroutine, and at
\* last closes the client; the network loses connections at any moment.
\* The scheduler is not started.
InitWs ==
    /\ NewScheduler(1, 1)
    /\ InitCallers
    /\ NewWebSocketClient
    /\ kind = [t \in Tasks |-> "periodic"]
    /\ maxRetries = MaxRetriesBound
    /\ failsFirst = 0

NextWs ==
    \/ \E p \in WsProcs : Connect(p)
    \/ \E p \in WsProcs : DialOK(p)
    \/ \E p \in WsProcs : DialFail(p)
    \/ \E k \in Conns : ConnectionLost(k)
    \/ \E symbol \in Symbols : SubscribeToFundingTrades(symbol)
    \/ HandleFundingTrades
    \/ HandlerSelect
    \/ ReadCheck
    \/ ReadCall
    \/ ReadMessage
    \/ ReadError
    \/ OnError
    \/ ReconnectDrop
    \/ ReconnectSleep
    \/ Resubscribe
    \/ Close

SpecWs == InitWs /\ [][NextWs]_vars

\* The goroutines' steps are taken when they can be (weak fairness), and a
\* dial that is attempted again and again eventually succeeds (strong
\* fairness of DialOK), and a read on a connection that is lost or closed
\* returns its error.  Nothing is asked of main's calls, of the network, or
\* of the arrival of messages.
SpecWsFair ==
    /\ SpecWs
    /\ WF_vars(Connect("handler"))
    /\ \A p \in WsProcs : WF_vars(DialOK(p) \/ DialFail(p))
    /\ \A p \in WsProcs : SF_vars(DialOK(p))
    /\ WF_vars(HandlerSelect) /\ WF_vars(ReadCheck) /\ WF_vars(ReadCall)
    /\ WF_vars(ReadError) /\ WF_vars(OnError)
    /\ WF_vars(ReconnectDrop) /\ WF_vars(ReconnectSleep) /\ WF_vars(Resubscribe)

\* ---- C28 ----------------------------------------------------------------------
\* The dialer of the model has no connection left to establish.
Capped == \A k \in Conns : link[k] # "unused"

\* C28: the client reconnects automatically on connection loss.  After an
\* error of readAndHandleMessages while the client has not been closed, the
\* goroutine is eventually inside ReadMessage again, on the connection the
\* client holds, given that dials that are retried eventually succeed -
\* unless the client is closed meanwhile (or the model's dialer is
\* exhausted).
C28_ReconnectsAfterReadError ==
    (wpc["handler"] = "onerr" /\ ~stopChan)
        ~> (\/ stopChan
            \/ Capped
            \/ wpc["handler"] = "reading" /\ conn # 0 /\ rconn = conn)

\* ---- C29 ----------------------------------------------------------------------
\* C29: the subscription state is kept across a reconnection.  Once
\* reconnectWebSocket has re-subscribed on a new connection, a subscribe
\* message has been sent on that connection for every symbol main had
\* subscribed to.
C29_ResubscribedSameSymbol ==
    redone # 0 => \A symbol \in want : symbol \in sent[redone]

\* ---- C30 ----------------------------------------------------------------------
\* C30: graceful shutdown.  After Close has returned (stopChan is closed,
\* which Close does under mu just before it returns) the client holds no
\* connection: none is established by a reconnect in progress.
C30_NoConnectionAfterClose ==
    stopChan => conn = 0

\* ---- C31 ----------------------------------------------------------------------
\* C31: the client's operations are thread-safe.  The goroutine never calls
\* ReadMessage on a connection that another goroutine has set to nil: it
\* never panics on wsc.conn.
C31_ConnNeverUsedAfterNil ==
    wpc["handler"] # "panic"

\* ---- C32 ----------------------------------------------------------------------
\* C32: Stop terminates.  When the task bodies that workers run return, a
\* call of Stop returns eventually, whatever is in the queue and whatever
\* timers and tickers are pending.
C32_StopReturns ==
    (stop = "wait") ~> (stop = "returned")

\* Stop has returned although tasks were left in the queue and the timer
\* goroutine was still alive.
C32_Witness ==
    /\ stop = "returned"
    /\ taskQueue # <<>>
    /\ alive # {}
    /\ joined # {}

\* ---- C33 ----------------------------------------------------------------------
\* C33: Stop is safe to call more than once.  A second call of Stop, after
\* the first has returned, does not panic.
C33_SecondStopDoesNotPanic ==
    stop # "panic"

\* ---- C34 ----------------------------------------------------------------------
\* C34: the tasks being executed by worker goroutines at one moment never
\* outnumber s.workers, the worker count given to NewScheduler.
C34_ExecutingWithinWorkers ==
    Cardinality({w \in WorkerIds : ex[W(w)].pc # "none"}) <= workers

\* ---- C35 ----------------------------------------------------------------------
\* The entries of task t waiting in the queue.
InQueue(t) == Cardinality({i \in DOMAIN taskQueue : taskQueue[i] = t})

\* C35: every accepted enqueue is handed to one worker at most once.  For
\* each task, the executions started by workers plus the entries still
\* waiting never exceed the accepted enqueues, with any number of workers
\* draining the queue.
C35_EachEntryExecutedOnce ==
    \A t \in Tasks : hist[t].calls + InQueue(t) <= hist[t].enq

\* Two workers are inside Execute at once, one of them on a task that has
\* been enqueued at least twice and begun as often as it was enqueued.
C35_Witness ==
    /\ Cardinality({w \in WorkerIds : ex[W(w)].pc # "none"}) >= 2
    /\ \E w \in WorkerIds :
         LET t == ex[W(w)].task
         IN  hist[t].enq >= 2 /\ hist[t].calls = hist[t].enq

\* ---- C36 ----------------------------------------------------------------------
\* C36: while the scheduler runs with at least one worker and is never
\* stopped, every task SubmitTask has enqueued is eventually received by a
\* worker and executed to its end.
C36_EnqueuedTaskExecuted ==
    \A t \in Tasks :
        (started /\ hist[t].enq >= 1) ~> (hist[t].outcome # "none")

\* One task has been executed to its end while another, enqueued when no
\* worker was free, is still waiting in the queue of the running scheduler.
C36_Witness ==
    /\ started
    /\ \A w \in Spawned : wk[w] = "busy"
    /\ \E t, u \in Tasks : hist[t].outcome # "none" /\ InQueue(u) >= 1

\* ---- C37 ----------------------------------------------------------------------
\* C37: after Stop has returned, having joined the workers of a started
\* scheduler, no step adds a task to the task queue.
C37_NoEnqueueAfterStop ==
    [][(stop = "returned" /\ joined # {}) => Len(taskQueue') <= Len(taskQueue)]_vars

\* ---- C38 ----------------------------------------------------------------------
\* C38: an invocation of GetFundingStatsTask.Execute sends exactly one
\* result on its ResultChan, on every path, and the error of that result is
\* the error Execute returns: nothing has been sent while Execute has not
\* returned, and once it has, the result channel has received the returned
\* error and nothing else.
C38_OneResultPerExecute ==
    \A t \in Tasks :
        kind[t] = "stats" =>
            hist[t].results =
                IF hist[t].outcome = "none" THEN <<>> ELSE <<hist[t].outcome>>

\* Every path of Execute has been taken by some stats task of the pair:
\* here, one was cancelled during a backoff and the other ran out of
\* retries after more than one attempt; each sent the error it returned.
C38_Witness ==
    \E t, u \in Tasks :
        /\ kind[t] = "stats" /\ kind[u] = "stats"
        /\ hist[t].cib >= 1 /\ hist[t].results = <<"ctxErr">>
        /\ hist[u].attempts = maxRetries + 1 /\ hist[u].attempts >= 2
        /\ hist[u].outcome \notin {"none", "nil", "ctxErr"}
        /\ hist[u].results = <<hist[u].outcome>>

\* ---- C39 ----------------------------------------------------------------------
\* C39: no scheduler lock is held across a suspension point or a task body.
\* Whenever a goroutine is at a point where it can be suspended (a worker
\* at its select or inside a run function, a caller between its calls, a
\* task waiting in the queue), neither Scheduler.mu nor the mutex of any
\* periodic task is locked, so a registration and a ShouldRun never wait
\* for a task execution or for the queue to drain.
C39_NoLockAcrossTaskBody ==
    /\ ~smu
    /\ \A t \in Tasks : ~pmu[t]

\* A worker is inside the run function of a registered periodic task while
\* another task waits in the queue, and a second registration has been made
\* meanwhile (after that Execute began).
C39_Witness ==
    \E e \in Executors, u \in Tasks :
        /\ ex[e].pc = "runFunc"
        /\ e[1] = "worker"
        /\ Registered(ex[e].task)
        /\ taskQueue # <<>>
        /\ u # ex[e].task
        /\ Registered(u)
        /\ hist[u].created > hist[ex[e].task].began
        /\ hist[ex[e].task].began >= 0

====
